---------------------------- MODULE Spec2Model ----------------------------
(***************************************************************************)
(* VideoTTS-Syncer (src/main.py): the subtitle-to-audio synchronisation    *)
(* pipeline.  The model follows one Application object: the GUI thread     *)
(* (start_processing, cancel_processing), the worker thread running        *)
(* run_process, the asyncio event loop inside process_subtitles_batch with *)
(* one task per subtitle line, the walk of combine_audio_segments_gui and  *)
(* the two ffmpeg steps of replace_audio.                                  *)
(*                                                                         *)
(* Times are milliseconds, as in the source.  An audio clip is a sequence  *)
(* of chunks [kind, seg, len]; its length is the sum of the chunk lengths. *)
(* Python's 0-based line index i is the model's k - 1.                     *)
(***************************************************************************)
EXTENDS Integers, Sequences, FiniteSets, TLC

(***************************************************************************)
(* Bounds of the model.                                                    *)
(***************************************************************************)
MaxLines == 3         \* subtitle lines in the .srt file
MaxBatch == 2         \* largest batch size the user configures

VARIABLES
    \* ---- Application (GUI thread and worker thread)
    base_path,          \* TRUE once a base directory was selected
    has_video,          \* the directory holds a .mp4 file
    has_srt,            \* the directory holds a .srt file
    subtitles,          \* the parsed .srt file: Seq of [start, end, text]
    batch_size,         \* self.batch_size_var
    cancel_requested,   \* self.cancel_requested
    btn_start,          \* state of the start button
    btn_cancel,         \* state of the cancel button
    rp,                 \* position of the worker thread in run_process
    outcome,            \* how the last run ended
    error,              \* the exception that ended the worker thread
    finishing,          \* worker threads between the two button updates
                        \* that end a run
    \* ---- process_subtitles_batch (event loop)
    tpc,                \* position of each line-task
    sem_value,          \* asyncio.Semaphore counter
    sem_waiters,        \* tasks blocked in sem.acquire(), FIFO
    gather,             \* state of the asyncio.gather future
    results,            \* value returned by each line-task
    segments,           \* the list handed to the assembler
    reported,           \* progress_callback(i + 1, total) calls, per line
    translate_calls,    \* translator.translate calls issued, per line
    tts_calls,          \* gTTS calls issued, per line
    files,              \* temp_audio/segment_{i}.wav on disk
    written,            \* segment files written during the current run
    flag_at_launch,     \* history: the flag when the line-tasks were launched
    flag_at_return,     \* history: the flag when the batch pipeline ended
    \* ---- combine_audio_segments_gui / replace_audio
    total_duration_ms,  \* result of get_video_duration_ms
    final_audio,        \* the track being assembled
    current_time,       \* current_time of the walk
    idx,                \* segments already walked
    appended,           \* the clip appended by the last iteration
    skipped,            \* segments whose file could not be read
    output_audio,       \* audio_pt_sync.wav
    silent_video,       \* silent.mp4 was produced
    output_video        \* video_with_translated_audio.mp4 was produced

appVars == <<base_path, has_video, has_srt, subtitles, batch_size,
             cancel_requested, btn_start, btn_cancel, rp, outcome, error,
             finishing>>
batchVars == <<tpc, sem_value, sem_waiters, gather, results, segments,
               reported, translate_calls, tts_calls, files, written,
               flag_at_launch, flag_at_return>>
asmVars == <<total_duration_ms, final_audio, current_time, idx, appended,
             skipped, output_audio, silent_video, output_video>>
vars == <<appVars, batchVars, asmVars>>

\* Python's None
None == [none |-> TRUE]

(***************************************************************************)
(* Subtitle text: sub.text.replace(">>", "").strip()                       *)
(***************************************************************************)
RECURSIVE ReplaceMarker(_)
ReplaceMarker(s) ==
    IF Len(s) < 2 THEN s
    ELSE IF s[1] = ">" /\ s[2] = ">" THEN ReplaceMarker(SubSeq(s, 3, Len(s)))
    ELSE <<s[1]>> \o ReplaceMarker(Tail(s))

RECURSIVE LStrip(_)
LStrip(s) == IF s # <<>> /\ s[1] = " " THEN LStrip(Tail(s)) ELSE s

RECURSIVE RStrip(_)
RStrip(s) ==
    IF s # <<>> /\ s[Len(s)] = " " THEN RStrip(SubSeq(s, 1, Len(s) - 1)) ELSE s

Strip(s) == RStrip(LStrip(s))

texto_original(sub) == Strip(ReplaceMarker(sub.text))

(***************************************************************************)
(* Subtitle timing: the millisecond arithmetic of process_subtitle.        *)
(***************************************************************************)
TimeToMs(t) ==
    t.hours * 3600000 + t.minutes * 60000 + t.seconds * 1000 + t.milliseconds

start_ms(sub) == TimeToMs(sub.start)
end_ms(sub) == TimeToMs(sub.end)
duration_ms(sub) == end_ms(sub) - start_ms(sub)

(***************************************************************************)
(* Audio clips (pydub AudioSegment): chunks of silence or audio.           *)
(***************************************************************************)
Chunk(kind, seg, len) == [kind |-> kind, seg |-> seg, len |-> len]

\* AudioSegment.silent(duration=d)
Silent(kind, seg, d) == IF d > 0 THEN <<Chunk(kind, seg, d)>> ELSE <<>>

RECURSIVE ClipLen(_)
ClipLen(clip) ==
    IF clip = <<>> THEN 0 ELSE clip[1].len + ClipLen(Tail(clip))

\* clip[:d] for d >= 0
RECURSIVE Slice(_, _)
Slice(clip, d) ==
    IF clip = <<>> \/ d <= 0 THEN <<>>
    ELSE IF clip[1].len <= d
         THEN <<clip[1]>> \o Slice(Tail(clip), d - clip[1].len)
         ELSE <<Chunk(clip[1].kind, clip[1].seg, d)>>

(***************************************************************************)
(* Inputs.  A subtitle line is [start, end, text] with SubRipTime fields;  *)
(* the data model has end after start.                                     *)
(***************************************************************************)
SubRipTime(h, m, s, ms) ==
    [hours |-> h, minutes |-> m, seconds |-> s, milliseconds |-> ms]

Windows ==
    { <<SubRipTime(0, 0, 0, 0), SubRipTime(0, 0, 1, 0)>>,
      <<SubRipTime(0, 0, 0, 500), SubRipTime(0, 1, 0, 0)>>,
      <<SubRipTime(0, 0, 2, 0), SubRipTime(0, 0, 2, 0)>> }   \* zero-length

EmptyTexts == { <<">", ">", " ">> }

\* every window with a text that survives cleaning, and two texts that do not
Lines ==
    { [start |-> w[1], end |-> w[2], text |-> <<" ", ">", ">", "a">>] :
        w \in Windows }
    \cup
    { [start |-> SubRipTime(0, 0, 1, 0), end |-> SubRipTime(0, 0, 2, 0),
       text |-> x] : x \in EmptyTexts }

SubtitleFiles == UNION { [1..n -> Lines] : n \in 0..MaxLines }

N == Len(subtitles)
Tasks == 1..N

(***************************************************************************)
(* Init: the state after Application.__init__ (lines 275-281, 331), with   *)
(* the contents of the base directory and the configured batch size.       *)
(***************************************************************************)
Init ==
    /\ base_path = FALSE
    /\ has_video \in BOOLEAN
    /\ has_srt \in BOOLEAN
    /\ subtitles \in SubtitleFiles
    /\ batch_size \in 1..MaxBatch
    /\ cancel_requested = FALSE
    /\ btn_start = "normal"
    /\ btn_cancel = "disabled"
    /\ rp = "idle"
    /\ outcome = "none"
    /\ error = "none"
    /\ finishing = 0
    /\ tpc = [k \in Tasks |-> "none"]
    /\ sem_value = 0
    /\ sem_waiters = <<>>
    /\ gather = "none"
    /\ results = [k \in Tasks |-> None]
    /\ segments = <<>>
    /\ reported = [k \in Tasks |-> 0]
    /\ translate_calls = [k \in Tasks |-> 0]
    /\ tts_calls = [k \in Tasks |-> 0]
    /\ files = [k \in Tasks |-> None]
    /\ written = {}
    /\ flag_at_launch = FALSE
    /\ flag_at_return = FALSE
    /\ total_duration_ms = 0
    /\ final_audio = <<>>
    /\ current_time = 0
    /\ idx = 0
    /\ appended = None
    /\ skipped = {}
    /\ output_audio = None
    /\ silent_video = FALSE
    /\ output_video = FALSE

(***************************************************************************)
(* GUI thread.                                                             *)
(***************************************************************************)
\* select_directory (lines 374-382)
SelectDirectory ==
    /\ base_path = FALSE
    /\ base_path' = TRUE
    /\ UNCHANGED <<has_video, has_srt, subtitles, batch_size, cancel_requested,
                   btn_start, btn_cancel, rp, outcome, error, finishing>>
    /\ UNCHANGED <<batchVars, asmVars>>

\* cancel_processing (lines 429-434); the button is clickable when enabled
CancelProcessing ==
    /\ btn_cancel = "normal"
    /\ cancel_requested' = TRUE
    /\ UNCHANGED <<base_path, has_video, has_srt, subtitles, batch_size,
                   btn_start, btn_cancel, rp, outcome, error, finishing>>
    /\ UNCHANGED <<batchVars, asmVars>>

\* start_processing (lines 436-447); the button is clickable when enabled
StartRun ==
    /\ btn_start = "normal"
    /\ base_path
    /\ cancel_requested' = FALSE
    /\ btn_start' = "disabled"
    /\ btn_cancel' = "normal"
    /\ rp' = "glob_video"
    /\ outcome' = "running"
    /\ UNCHANGED <<base_path, has_video, has_srt, subtitles, batch_size,
                   error, finishing>>
    /\ UNCHANGED <<batchVars, asmVars>>

\* the first press of start
StartProcessing ==
    /\ outcome = "none"
    /\ StartRun

(***************************************************************************)
(* Worker thread: run_process up to the batch.                             *)
(***************************************************************************)
\* the "return" paths of run_process (lines 460-462, 469-471, 500-502,
\* 505-507, 511-513, 531-532) re-enable start and then disable cancel, in
\* two calls from the worker thread; this is the first one, which leaves
\* the thread with the second call to make
Finish(result) ==
    /\ btn_start' = "normal"
    /\ finishing' = finishing + 1
    /\ rp' = "idle"
    /\ outcome' = result
    /\ UNCHANGED <<base_path, has_video, has_srt, subtitles, batch_size,
                   cancel_requested, btn_cancel, error>>

\* the second call, btn_cancel.config(state="disabled"), and the return
DisableCancel ==
    /\ finishing > 0
    /\ btn_cancel' = "disabled"
    /\ finishing' = finishing - 1
    /\ UNCHANGED <<base_path, has_video, has_srt, subtitles, batch_size,
                   cancel_requested, btn_start, rp, outcome, error>>
    /\ UNCHANGED <<batchVars, asmVars>>

\* an exception nobody catches ends the worker thread where it is
Crash(e) ==
    /\ rp' = "idle"
    /\ outcome' = "Crashed"
    /\ error' = e
    /\ UNCHANGED <<base_path, has_video, has_srt, subtitles, batch_size,
                   cancel_requested, btn_start, btn_cancel, finishing>>

Goto(pos) ==
    /\ rp' = pos
    /\ UNCHANGED <<base_path, has_video, has_srt, subtitles, batch_size,
                   cancel_requested, btn_start, btn_cancel, outcome, error,
                   finishing>>

\* lines 457-465
GlobVideo ==
    /\ rp = "glob_video"
    /\ IF has_video THEN Goto("glob_srt") ELSE Finish("Failure")
    /\ UNCHANGED <<batchVars, asmVars>>

\* lines 467-482
GlobSrt ==
    /\ rp = "glob_srt"
    /\ IF has_srt THEN Goto("launch") ELSE Finish("Failure")
    /\ UNCHANGED <<batchVars, asmVars>>

\* lines 484-497 and 112-150: asyncio.run starts the main coroutine, which
\* creates the semaphore and one task per line and awaits gather
LaunchBatch ==
    /\ rp = "launch"
    /\ Goto("batch")
    /\ tpc' = [k \in Tasks |-> "created"]
    /\ sem_value' = batch_size
    /\ sem_waiters' = <<>>
    /\ gather' = "pending"
    /\ results' = [k \in Tasks |-> None]
    /\ segments' = <<>>
    /\ reported' = [k \in Tasks |-> 0]
    /\ translate_calls' = [k \in Tasks |-> 0]
    /\ tts_calls' = [k \in Tasks |-> 0]
    /\ written' = {}
    /\ flag_at_launch' = cancel_requested
    /\ UNCHANGED <<files, flag_at_return>>
    /\ UNCHANGED asmVars

(***************************************************************************)
(* process_subtitles_batch: the event loop.  Every task runs its first     *)
(* step, in creation order, before the loop handles any completion of an   *)
(* executor call; completions arrive in any order.                         *)
(***************************************************************************)
\* mutant of SlotFree: acquire never waits
SlotFreeAlways == TRUE

\* asyncio.Semaphore.acquire takes a slot at once iff the counter is positive
SlotFree == sem_value > 0

\* mutant of CheckBeforeTranslate: the checkpoint is skipped
CheckBeforeTranslateSkipped == FALSE

\* cancel_flag() at line 119
CheckBeforeTranslate == cancel_requested

\* cancel_flag() at line 130
CheckAfterTranslate == cancel_requested

\* self.cancel_requested at line 509
CheckAfterBatch == cancel_requested

\* asyncio.gather without return_exceptions: the first task that raises
\* settles the gather future with its exception
GatherFail(e) == IF gather = "pending" THEN e ELSE gather

\* mutant of WakeNext: release() wakes nobody
WakeNone(p) == p

\* asyncio.Semaphore.release: the first waiter, if any, is woken
WakeNext(p) ==
    [j \in DOMAIN p |->
        IF sem_waiters # <<>> /\ j = Head(sem_waiters) THEN "woken" ELSE p[j]]

\* mutant of ExitSlot: the task ends without releasing the semaphore
ExitSlotNoRelease(k, pos) ==
    /\ sem_value' = sem_value
    /\ sem_waiters' = sem_waiters
    /\ tpc' = [tpc EXCEPT ![k] = pos]

\* leaving "async with sem" (line 121) from task k, which ends in state pos
ExitSlot(k, pos) ==
    /\ sem_value' = sem_value + 1
    /\ sem_waiters' = IF sem_waiters = <<>> THEN <<>> ELSE Tail(sem_waiters)
    /\ tpc' = WakeNext([tpc EXCEPT ![k] = pos])

\* lines 122-128, entered with the slot taken; v is the counter after acquire
EnterSlot(k, v) ==
    IF texto_original(subtitles[k]) = <<>>
    THEN /\ reported' = [reported EXCEPT ![k] = @ + 1]
         /\ results' = [results EXCEPT ![k] = None]
         /\ sem_value' = v + 1
         /\ sem_waiters' = IF sem_waiters = <<>> THEN <<>> ELSE Tail(sem_waiters)
         /\ tpc' = WakeNext([tpc EXCEPT ![k] = "done"])
         /\ UNCHANGED translate_calls
    ELSE /\ translate_calls' = [translate_calls EXCEPT ![k] = @ + 1]
         /\ tpc' = [tpc EXCEPT ![k] = "translating"]
         /\ sem_value' = v
         /\ UNCHANGED <<sem_waiters, reported, results>>

AllStarted == \A j \in Tasks : tpc[j] # "created"

\* lines 117-128: the first step of task k, up to its first suspension
FirstStep(k) ==
    /\ rp = "batch"
    /\ tpc[k] = "created"
    /\ \A j \in 1..(k - 1) : tpc[j] # "created"
    /\ IF CheckBeforeTranslate
       THEN /\ tpc' = [tpc EXCEPT ![k] = "cancelled"]
            /\ gather' = GatherFail("CancelledError")
            /\ UNCHANGED <<sem_value, sem_waiters, reported, results,
                           translate_calls>>
       ELSE IF SlotFree
       THEN /\ EnterSlot(k, sem_value - 1)
            /\ UNCHANGED gather
       ELSE /\ sem_waiters' = Append(sem_waiters, k)
            /\ tpc' = [tpc EXCEPT ![k] = "waiting"]
            /\ UNCHANGED <<sem_value, gather, reported, results,
                           translate_calls>>
    /\ UNCHANGED <<segments, tts_calls, files, written, flag_at_launch,
                   flag_at_return>>
    /\ UNCHANGED <<appVars, asmVars>>

\* line 121 resumed: a woken waiter takes the slot and runs lines 122-128
Resume(k) ==
    /\ rp = "batch"
    /\ tpc[k] = "woken"
    /\ EnterSlot(k, sem_value - 1)
    /\ UNCHANGED <<gather, segments, tts_calls, files, written,
                   flag_at_launch, flag_at_return>>
    /\ UNCHANGED <<appVars, asmVars>>

\* lines 128-144 and 73-77: the translation returned; checkpoint, timing,
\* then the gTTS call is handed to the executor
TranslateReturns(k) ==
    /\ rp = "batch"
    /\ AllStarted
    /\ tpc[k] = "translating"
    /\ IF CheckAfterTranslate
       THEN /\ ExitSlot(k, "cancelled")
            /\ gather' = GatherFail("CancelledError")
            /\ UNCHANGED tts_calls
       ELSE /\ tts_calls' = [tts_calls EXCEPT ![k] = @ + 1]
            /\ tpc' = [tpc EXCEPT ![k] = "synthesizing"]
            /\ UNCHANGED <<sem_value, sem_waiters, gather>>
    /\ UNCHANGED <<results, segments, reported, translate_calls, files, written,
                   flag_at_launch, flag_at_return>>
    /\ UNCHANGED <<appVars, asmVars>>

\* line 128: translator.translate raised; nothing in process_subtitle catches
TranslateFails(k) ==
    /\ rp = "batch"
    /\ AllStarted
    /\ tpc[k] = "translating"
    /\ ExitSlot(k, "failed")
    /\ gather' = GatherFail("Exception")
    /\ UNCHANGED <<results, segments, reported, translate_calls, tts_calls,
                   files, written, flag_at_launch, flag_at_return>>
    /\ UNCHANGED <<appVars, asmVars>>

\* mutant of Segment: the end offset is taken for the duration
SegmentEndAsDuration(k) ==
    [start |-> start_ms(subtitles[k]),
     duration |-> end_ms(subtitles[k]),
     file |-> k]

\* the dict returned at line 146; the file is segment_{i}.wav
Segment(k) ==
    [start |-> start_ms(subtitles[k]),
     duration |-> duration_ms(subtitles[k]),
     file |-> k]

\* mutant of SilentFallback: the requested duration is ignored
SilentFallbackDefault(d) == 1000

\* lines 83-89: the length of the silent clip exported after a gTTS error;
\* d is <<>> for duration_ms=None and <<n>> for a number
SilentFallback(d) == IF d # <<>> /\ d[1] > 0 THEN d[1] ELSE 1000

\* lines 145-146
ReturnSegment(k) ==
    /\ reported' = [reported EXCEPT ![k] = @ + 1]
    /\ results' = [results EXCEPT ![k] = Segment(k)]
    /\ ExitSlot(k, "done")

\* lines 77-79, 145-146: gTTS saved the speech, of whatever natural length
TtsSaves(k) ==
    /\ rp = "batch"
    /\ AllStarted
    /\ tpc[k] = "synthesizing"
    /\ files' = [files EXCEPT ![k] = [kind |-> "speech"]]
    /\ written' = written \cup {k}
    /\ ReturnSegment(k)
    /\ UNCHANGED <<gather, segments, translate_calls, tts_calls,
                   flag_at_launch, flag_at_return>>
    /\ UNCHANGED <<appVars, asmVars>>

\* lines 80-90, 145-146: gTTS raised; a silent clip is exported instead
TtsFails(k) ==
    /\ rp = "batch"
    /\ AllStarted
    /\ tpc[k] = "synthesizing"
    /\ files' = [files EXCEPT ![k] =
                    [kind |-> "silence",
                     len |-> SilentFallback(<<duration_ms(subtitles[k])>>)]]
    /\ written' = written \cup {k}
    /\ ReturnSegment(k)
    /\ UNCHANGED <<gather, segments, translate_calls, tts_calls,
                   flag_at_launch, flag_at_return>>
    /\ UNCHANGED <<appVars, asmVars>>

\* lines 155-158: the results that are not None, in task order
RECURSIVE Collect(_, _)
Collect(r, k) ==
    IF k > Len(r) THEN <<>>
    ELSE (IF r[k] # None THEN <<r[k]>> ELSE <<>>) \o Collect(r, k + 1)

\* lines 150, 155-158, 486: every task returned, gather returns the results
GatherReturns ==
    /\ rp = "batch"
    /\ gather = "pending"
    /\ \A k \in Tasks : tpc[k] = "done"
    /\ gather' = "results"
    /\ segments' = Collect(results, 1)
    /\ Goto("after_batch")
    /\ flag_at_return' = cancel_requested
    /\ UNCHANGED <<tpc, sem_value, sem_waiters, results, reported,
                   translate_calls, tts_calls, files, written, flag_at_launch>>
    /\ UNCHANGED asmVars

Unfinished(k) == tpc[k] \in {"waiting", "translating", "synthesizing"}
HoldsSlot(k) == tpc[k] \in {"translating", "synthesizing"}

\* asyncio.run closing the loop after the main coroutine raised: every
\* task still pending is cancelled, and leaves "async with sem" if inside
CancelAllTasks ==
    /\ tpc' = [k \in Tasks |-> IF Unfinished(k) THEN "killed" ELSE tpc[k]]
    /\ sem_value' = sem_value + Cardinality({k \in Tasks : HoldsSlot(k)})
    /\ sem_waiters' = <<>>

\* a woken waiter runs before the main coroutine sees the gather exception:
\* its wake-up is queued by release(), ahead of gather's done-callback (the
\* loop is FIFO; exact for chains of up to three waiters, as the bounds give)
MainWakes == AllStarted /\ \A k \in Tasks : tpc[k] # "woken"

\* lines 151-153, 498-502
BatchCancelled ==
    /\ rp = "batch"
    /\ gather = "CancelledError"
    /\ MainWakes
    /\ CancelAllTasks
    /\ Finish("Cancelled")
    /\ flag_at_return' = cancel_requested
    /\ UNCHANGED <<gather, results, segments, reported, translate_calls,
                   tts_calls, files, written, flag_at_launch>>
    /\ UNCHANGED asmVars

\* lines 503-507
BatchError ==
    /\ rp = "batch"
    /\ gather = "Exception"
    /\ MainWakes
    /\ CancelAllTasks
    /\ Finish("Failure")
    /\ flag_at_return' = cancel_requested
    /\ UNCHANGED <<gather, results, segments, reported, translate_calls,
                   tts_calls, files, written, flag_at_launch>>
    /\ UNCHANGED asmVars

\* lines 509-515
AfterBatch ==
    /\ rp = "after_batch"
    /\ IF CheckAfterBatch THEN Finish("Cancelled") ELSE Goto("probe")
    /\ UNCHANGED <<batchVars, asmVars>>

(***************************************************************************)
(* get_video_duration_ms, combine_audio_segments_gui, replace_audio.       *)
(***************************************************************************)
\* durations ffprobe may report for the video
VideoDurations == {1000, 5000}

\* lines 515-516: ffprobe answers, or float() raises on its error text
Probe ==
    /\ rp = "probe"
    /\ \/ \E T \in VideoDurations :
            /\ total_duration_ms' = T
            /\ Goto("combine_start")
       \/ /\ Crash("ProbeError")
          /\ UNCHANGED total_duration_ms
    /\ UNCHANGED <<final_audio, current_time, idx, appended, skipped,
                   output_audio, silent_video, output_video>>
    /\ UNCHANGED batchVars

\* list.sort(key=start) is stable: insert after every element not greater
RECURSIVE InsertByStart(_, _)
InsertByStart(sorted, seg) ==
    IF sorted = <<>> THEN <<seg>>
    ELSE IF sorted[1].start <= seg.start
         THEN <<sorted[1]>> \o InsertByStart(Tail(sorted), seg)
         ELSE <<seg>> \o sorted

\* mutant of SortByStart: the segments stay in the order of the results
SortNone(segs) == segs

RECURSIVE SortByStart(_)
SortByStart(segs) ==
    IF segs = <<>> THEN <<>>
    ELSE InsertByStart(SortByStart(SubSeq(segs, 1, Len(segs) - 1)),
                       segs[Len(segs)])

\* lines 198-202
CombineStart ==
    /\ rp = "combine_start"
    /\ final_audio' = <<>>
    /\ current_time' = 0
    /\ segments' = SortByStart(segments)
    /\ idx' = 0
    /\ appended' = None
    /\ skipped' = {}
    /\ Goto("combine")
    /\ UNCHANGED <<total_duration_ms, output_audio, silent_video, output_video>>
    /\ UNCHANGED <<tpc, sem_value, sem_waiters, gather, results, reported,
                   translate_calls, tts_calls, files, written, flag_at_launch,
                   flag_at_return>>

\* len(AudioSegment.from_file(seg["file"])): the silent fallback has the
\* length it was exported with, speech has whatever length gTTS produced
LoadLens(seg) ==
    IF files[seg.file] = None THEN {}
    ELSE IF files[seg.file].kind = "silence" THEN {files[seg.file].len}
    ELSE { (seg.duration \div 10) + 1, seg.duration,
           2 * seg.duration, 5 * seg.duration + 1 } \ {0}

\* lengths of adjusted_{idx}.wav: the target, or off by rounding
StretchLens(D) == { D - 1, D, D + 1 }

Audio(k, len) == IF len > 0 THEN <<Chunk("audio", k, len)>> ELSE <<>>

\* mutant of Reconcile: the clip is appended as it was loaded
ReconcileUnadjusted(seg_audio, expected_duration, stretched, k) == seg_audio

\* mutant of Reconcile: a stretched clip that is still too long is kept whole
ReconcileNoTruncate(seg_audio, expected_duration, stretched, k) ==
    IF ClipLen(seg_audio) > expected_duration
    THEN stretched \o
         Silent("pad", k, expected_duration - ClipLen(stretched))
    ELSE seg_audio \o Silent("pad", k, expected_duration - ClipLen(seg_audio))

\* lines 218-230: seg_audio after the adjustment to expected_duration;
\* stretched is the clip read back from the adjusted file
Reconcile(seg_audio, expected_duration, stretched, k) ==
    IF ClipLen(seg_audio) > expected_duration
    THEN IF ClipLen(stretched) > expected_duration
         THEN Slice(stretched, expected_duration)
         ELSE IF ClipLen(stretched) < expected_duration
         THEN stretched \o
              Silent("pad", k, expected_duration - ClipLen(stretched))
         ELSE stretched
    ELSE IF ClipLen(seg_audio) < expected_duration
    THEN seg_audio \o Silent("pad", k, expected_duration - ClipLen(seg_audio))
    ELSE seg_audio

\* mutant of WithGap: no silence is inserted before a segment
WithGapDropped(seg) == final_audio

\* lines 207-211: the track and the clock after the gap, if any
WithGap(seg) ==
    IF seg.start > current_time
    THEN final_audio \o Silent("gap", 0, seg.start - current_time)
    ELSE final_audio

\* mutant of TimeAfterGap: the clock is set to the start of every segment
TimeAtStart(seg) == seg.start

TimeAfterGap(seg) ==
    IF seg.start > current_time THEN seg.start ELSE current_time

\* mutant of NeedsStretch: a clip of exactly the window's length counts too
NeedsStretchOrEqual(actual_duration, expected_duration) ==
    actual_duration >= expected_duration

\* line 220: the clip is longer than its window
NeedsStretch(actual_duration, expected_duration) ==
    actual_duration > expected_duration

\* lines 172-178: the loop of change_audio_speed_ffmpeg on remaining =
\* num / den; twos counts the "atempo=2.0" filters emitted so far and the
\* record returned is the chain, its last filter being atempo=num/den
RECURSIVE AtempoSteps(_, _, _)
AtempoSteps(num, den, twos) ==
    IF num > 2 * den THEN AtempoSteps(num, 2 * den, twos + 1)
    ELSE [twos |-> twos, num |-> num, den |-> den]

\* mutant of AtempoFilters: the factor is passed as one filter
AtempoFiltersSingle(actual_duration, expected_duration) ==
    [twos |-> 0, num |-> actual_duration, den |-> expected_duration]

\* lines 221-223: the chain for factor = actual_duration / expected_duration
AtempoFilters(actual_duration, expected_duration) ==
    AtempoSteps(actual_duration, expected_duration, 0)

\* lines 231-232; loaded is len(seg_audio) as read from the segment file and
\* filters the chain handed to ffmpeg, None when no stretch was asked for
AppendClip(seg, clip, loaded, filters) ==
    /\ final_audio' = WithGap(seg) \o clip
    /\ current_time' = TimeAfterGap(seg) + seg.duration
    /\ appended' = [clip |-> clip, loaded |-> loaded, filters |-> filters]
    /\ idx' = idx + 1
    /\ UNCHANGED <<appVars, skipped>>

\* lines 203-232: one iteration of the walk
CombineIter ==
    /\ rp = "combine"
    /\ idx < Len(segments)
    /\ LET seg == segments[idx + 1]
           D == seg.duration
       IN  \/ \* lines 215-217: the file cannot be read
              /\ final_audio' = WithGap(seg)
              /\ current_time' = TimeAfterGap(seg)
              /\ appended' = None
              /\ skipped' = skipped \cup {[file |-> seg.file,
                                            clock |-> TimeAfterGap(seg)]}
              /\ idx' = idx + 1
              /\ UNCHANGED appVars
           \/ \E A \in LoadLens(seg) :
                LET seg_audio == Audio(seg.file, A) IN
                IF NeedsStretch(A, D)
                THEN IF D = 0
                     THEN \* line 221: ZeroDivisionError
                          /\ Crash("ZeroDivisionError")
                          /\ UNCHANGED <<final_audio, current_time, appended,
                                         skipped, idx>>
                     ELSE \/ \E S \in StretchLens(D) :
                               AppendClip(seg, Reconcile(seg_audio, D,
                                                Audio(seg.file, S), seg.file),
                                          A, AtempoFilters(A, D))
                          \/ \* lines 181, 224: ffmpeg failed, no adjusted file
                             /\ Crash("StretchError")
                             /\ UNCHANGED <<final_audio, current_time,
                                            appended, skipped, idx>>
                ELSE AppendClip(seg, Reconcile(seg_audio, D, <<>>, seg.file),
                                A, None)
    /\ UNCHANGED <<total_duration_ms, output_audio, silent_video, output_video>>
    /\ UNCHANGED batchVars

\* mutant of FinalTrack: the track is padded but never cut
FinalTrackNoClamp(audio, T) ==
    audio \o Silent("tail", 0, T - ClipLen(audio))

\* lines 233-236
FinalTrack(audio, T) ==
    Slice(IF ClipLen(audio) < T
          THEN audio \o Silent("tail", 0, T - ClipLen(audio))
          ELSE audio, T)

\* lines 233-238; the locals of the loop end with it
CombineFinish ==
    /\ rp = "combine"
    /\ idx = Len(segments)
    /\ final_audio' = FinalTrack(final_audio, total_duration_ms)
    /\ output_audio' = [track |-> final_audio']
    /\ Goto("remux_strip")
    /\ appended' = None
    /\ UNCHANGED <<total_duration_ms, current_time, idx, skipped,
                   silent_video, output_video>>
    /\ UNCHANGED batchVars

\* mutant of RemuxStrip: the outcome of the first ffmpeg run is ignored
RemuxStripUnchecked ==
    /\ rp = "remux_strip"
    /\ silent_video' \in BOOLEAN
    /\ Goto("remux_mux")
    /\ UNCHANGED <<total_duration_ms, final_audio, current_time, idx, appended,
                   skipped, output_audio, output_video>>
    /\ UNCHANGED batchVars

\* line 257: ffmpeg writes silent.mp4, or raises
RemuxStrip ==
    /\ rp = "remux_strip"
    /\ \/ /\ silent_video' = TRUE
          /\ Goto("remux_mux")
       \/ /\ Crash("RemuxError")
          /\ UNCHANGED silent_video
    /\ UNCHANGED <<total_duration_ms, final_audio, current_time, idx, appended,
                   skipped, output_audio, output_video>>
    /\ UNCHANGED batchVars

\* lines 261-268, 530-532: ffmpeg writes the final video, or raises
RemuxMux ==
    /\ rp = "remux_mux"
    /\ \/ /\ output_video' = TRUE
          /\ Finish("Success")
       \/ /\ Crash("RemuxError")
          /\ UNCHANGED output_video
    /\ UNCHANGED <<total_duration_ms, final_audio, current_time, idx, appended,
                   skipped, output_audio, silent_video>>
    /\ UNCHANGED batchVars

(***************************************************************************)
(* Specifications.                                                         *)
(***************************************************************************)
Next ==
    \/ SelectDirectory
    \/ StartProcessing
    \/ CancelProcessing
    \/ GlobVideo
    \/ GlobSrt
    \/ DisableCancel
    \/ LaunchBatch
    \/ \E k \in Tasks : FirstStep(k)
    \/ \E k \in Tasks : Resume(k)
    \/ \E k \in Tasks : TranslateReturns(k)
    \/ \E k \in Tasks : TranslateFails(k)
    \/ \E k \in Tasks : TtsSaves(k)
    \/ \E k \in Tasks : TtsFails(k)
    \/ GatherReturns
    \/ BatchCancelled
    \/ BatchError
    \/ AfterBatch
    \/ Probe
    \/ CombineStart
    \/ CombineIter
    \/ CombineFinish
    \/ RemuxStrip
    \/ RemuxMux

Spec == Init /\ [][Next]_vars

(***************************************************************************)
(* One whole run on a three-line file: a text line at 0-1000 ms, a line    *)
(* with no text at 1000-2000 ms and a text line at 2000-3500 ms.           *)
(***************************************************************************)
E2ELines ==
    << [start |-> SubRipTime(0, 0, 0, 0), end |-> SubRipTime(0, 0, 1, 0),
        text |-> <<"A">>],
       [start |-> SubRipTime(0, 0, 1, 0), end |-> SubRipTime(0, 0, 2, 0),
        text |-> <<>>],
       [start |-> SubRipTime(0, 0, 2, 0), end |-> SubRipTime(0, 0, 3, 500),
        text |-> <<"B">>] >>

InitE2E ==
    /\ base_path = FALSE
    /\ has_video = TRUE
    /\ has_srt = TRUE
    /\ subtitles = E2ELines
    /\ batch_size \in 1..MaxBatch
    /\ cancel_requested = FALSE
    /\ btn_start = "normal"
    /\ btn_cancel = "disabled"
    /\ rp = "idle"
    /\ outcome = "none"
    /\ error = "none"
    /\ finishing = 0
    /\ tpc = [k \in Tasks |-> "none"]
    /\ sem_value = 0
    /\ sem_waiters = <<>>
    /\ gather = "none"
    /\ results = [k \in Tasks |-> None]
    /\ segments = <<>>
    /\ reported = [k \in Tasks |-> 0]
    /\ translate_calls = [k \in Tasks |-> 0]
    /\ tts_calls = [k \in Tasks |-> 0]
    /\ files = [k \in Tasks |-> None]
    /\ written = {}
    /\ flag_at_launch = FALSE
    /\ flag_at_return = FALSE
    /\ total_duration_ms = 0
    /\ final_audio = <<>>
    /\ current_time = 0
    /\ idx = 0
    /\ appended = None
    /\ skipped = {}
    /\ output_audio = None
    /\ silent_video = FALSE
    /\ output_video = FALSE

SpecE2E == InitE2E /\ [][Next]_vars

(***************************************************************************)
(* Run after run: the start button may be pressed whenever it is enabled.  *)
(* The worker threads that have re-enabled it and have yet to disable      *)
(* cancel are capped at MaxPending.                                        *)
(***************************************************************************)
MaxPending == 1       \* most worker threads left with their last call

\* files of at most two lines, each of one second, with or without text
RunsSubtitleFiles ==
    { f \in SubtitleFiles :
        /\ Len(f) <= 2
        /\ \A k \in 1..Len(f) : duration_ms(f[k]) = 1000 }

InitRuns ==
    /\ Init
    /\ has_srt
    /\ subtitles \in RunsSubtitleFiles
    /\ batch_size = 1

NextRuns ==
    \/ SelectDirectory
    \/ finishing <= MaxPending /\ StartRun
    \/ CancelProcessing
    \/ GlobVideo
    \/ GlobSrt
    \/ DisableCancel
    \/ LaunchBatch
    \/ \E k \in Tasks : FirstStep(k)
    \/ \E k \in Tasks : Resume(k)
    \/ \E k \in Tasks : TranslateReturns(k)
    \/ \E k \in Tasks : TranslateFails(k)
    \/ \E k \in Tasks : TtsSaves(k)
    \/ \E k \in Tasks : TtsFails(k)
    \/ GatherReturns
    \/ BatchCancelled
    \/ BatchError
    \/ AfterBatch
    \/ Probe
    \/ CombineStart
    \/ CombineIter
    \/ CombineFinish
    \/ RemuxStrip
    \/ RemuxMux

SpecRuns == InitRuns /\ [][NextRuns]_vars

(***************************************************************************)
(* The batch on its own, with fairness: run_process at line 484, for files *)
(* of text lines and lines without text.  The event loop runs every        *)
(* callback that is ready, and every call handed to the executor comes     *)
(* back, with a value or with an exception.                                *)
(***************************************************************************)
LiveLines ==
    { [start |-> SubRipTime(0, 0, 1, 0), end |-> SubRipTime(0, 0, 2, 0),
       text |-> x] : x \in EmptyTexts \cup { <<"a">> } }

LiveSubtitleFiles == UNION { [1..n -> LiveLines] : n \in 0..MaxLines }

InitLive ==
    /\ base_path = TRUE
    /\ has_video = TRUE
    /\ has_srt = TRUE
    /\ subtitles \in LiveSubtitleFiles
    /\ batch_size \in 1..MaxBatch
    /\ cancel_requested = FALSE
    /\ btn_start = "disabled"
    /\ btn_cancel = "normal"
    /\ rp = "launch"
    /\ outcome = "running"
    /\ error = "none"
    /\ finishing = 0
    /\ tpc = [k \in Tasks |-> "none"]
    /\ sem_value = 0
    /\ sem_waiters = <<>>
    /\ gather = "none"
    /\ results = [k \in Tasks |-> None]
    /\ segments = <<>>
    /\ reported = [k \in Tasks |-> 0]
    /\ translate_calls = [k \in Tasks |-> 0]
    /\ tts_calls = [k \in Tasks |-> 0]
    /\ files = [k \in Tasks |-> None]
    /\ written = {}
    /\ flag_at_launch = FALSE
    /\ flag_at_return = FALSE
    /\ total_duration_ms = 0
    /\ final_audio = <<>>
    /\ current_time = 0
    /\ idx = 0
    /\ appended = None
    /\ skipped = {}
    /\ output_audio = None
    /\ silent_video = FALSE
    /\ output_video = FALSE

NextLive ==
    \/ CancelProcessing
    \/ LaunchBatch
    \/ \E k \in Tasks : FirstStep(k)
    \/ \E k \in Tasks : Resume(k)
    \/ \E k \in Tasks : TranslateReturns(k)
    \/ \E k \in Tasks : TranslateFails(k)
    \/ \E k \in Tasks : TtsSaves(k)
    \/ \E k \in Tasks : TtsFails(k)
    \/ GatherReturns
    \/ BatchCancelled
    \/ BatchError
    \/ DisableCancel

\* the loop runs what is ready; an executor call returns or raises
Fairness ==
    /\ WF_vars(LaunchBatch)
    /\ \A k \in 1..MaxLines :
          /\ WF_vars(k \in Tasks /\ FirstStep(k))
          /\ WF_vars(k \in Tasks /\ Resume(k))
          /\ WF_vars(k \in Tasks /\ (TranslateReturns(k) \/ TranslateFails(k)))
          /\ WF_vars(k \in Tasks /\ (TtsSaves(k) \/ TtsFails(k)))
    /\ WF_vars(GatherReturns)
    /\ WF_vars(BatchCancelled)
    /\ WF_vars(BatchError)

SpecLive == InitLive /\ [][NextLive]_vars /\ Fairness

(***************************************************************************)
(* The assembler and the remuxer on their own: run_process at line 515,    *)
(* after a batch that returned one Segment per line, with windows that     *)
(* leave gaps, overlap in part, and end before or after the video.         *)
(***************************************************************************)
MaxSegs == 2          \* most segments handed to the assembler

AsmWindows ==
    { <<SubRipTime(0, 0, 0, 0), SubRipTime(0, 0, 1, 0)>>,
      <<SubRipTime(0, 0, 0, 500), SubRipTime(0, 0, 1, 500)>>,
      <<SubRipTime(0, 0, 2, 0), SubRipTime(0, 0, 3, 500)>> }

AsmLines ==
    { [start |-> w[1], end |-> w[2], text |-> <<"a">>] : w \in AsmWindows }

AsmSubtitleFiles == UNION { [1..n -> AsmLines] : n \in 0..MaxSegs }

\* segment_{i}.wav as the batch left it: speech, or the silent fallback
SegmentFiles(k) ==
    { [kind |-> "speech"],
      [kind |-> "silence",
       len |-> SilentFallback(<<duration_ms(subtitles[k])>>)] }

InitAsm ==
    /\ base_path = TRUE
    /\ has_video = TRUE
    /\ has_srt = TRUE
    /\ subtitles \in AsmSubtitleFiles
    /\ batch_size = MaxBatch
    /\ cancel_requested = FALSE
    /\ btn_start = "disabled"
    /\ btn_cancel = "normal"
    /\ rp = "probe"
    /\ outcome = "running"
    /\ error = "none"
    /\ finishing = 0
    /\ tpc = [k \in Tasks |-> "done"]
    /\ sem_value = batch_size
    /\ sem_waiters = <<>>
    /\ gather = "results"
    /\ results = [k \in Tasks |-> Segment(k)]
    /\ segments = Collect(results, 1)
    /\ reported = [k \in Tasks |-> 1]
    /\ translate_calls = [k \in Tasks |-> 1]
    /\ tts_calls = [k \in Tasks |-> 1]
    /\ files \in [Tasks -> UNION { SegmentFiles(k) : k \in Tasks }]
    /\ \A k \in Tasks : files[k] \in SegmentFiles(k)
    /\ written = Tasks
    /\ flag_at_launch = FALSE
    /\ flag_at_return = FALSE
    /\ total_duration_ms = 0
    /\ final_audio = <<>>
    /\ current_time = 0
    /\ idx = 0
    /\ appended = None
    /\ skipped = {}
    /\ output_audio = None
    /\ silent_video = FALSE
    /\ output_video = FALSE

NextAsm ==
    \/ CancelProcessing
    \/ Probe
    \/ CombineStart
    \/ CombineIter
    \/ CombineFinish
    \/ RemuxStrip
    \/ RemuxMux
    \/ DisableCancel

SpecAsm == InitAsm /\ [][NextAsm]_vars

(***************************************************************************)
(* Vocabulary of the properties.                                           *)
(***************************************************************************)
\* a timestamp as a millisecond offset
Offset(t) ==
    ((t.hours * 60 + t.minutes) * 60 + t.seconds) * 1000 + t.milliseconds

IsText(k) == texto_original(subtitles[k]) # <<>>

SegmentsOf(k) == { j \in 1..Len(segments) : segments[j].file = k }

\* process_subtitles_batch returned a list / raised into run_process
PipelineReturned == gather = "results"
PipelineRaised == rp = "idle" /\ gather \in {"CancelledError", "Exception"}
PipelineEnded == PipelineReturned \/ PipelineRaised

Holders == { k \in Tasks : HoldsSlot(k) }
Waiters == { k \in Tasks : tpc[k] = "waiting" }
Woken == { k \in Tasks : tpc[k] = "woken" }

Downstream == {"probe", "combine_start", "combine", "remux_strip", "remux_mux"}

(***************************************************************************)
(* C1.  Every line whose cleaned text is non-empty yields exactly one      *)
(* Segment, with the line's start offset and end - start as duration, in   *)
(* every batch run that is not cancelled, whether the translation and the  *)
(* synthesis succeed or fail.  Refuted: a failed translation ends the      *)
(* batch with no Segment at all.                                           *)
(***************************************************************************)
C1_OneSegmentPerTextLine ==
    (PipelineEnded /\ ~cancel_requested) =>
        \A k \in Tasks :
            IsText(k) =>
                /\ Cardinality(SegmentsOf(k)) = 1
                /\ \A j \in SegmentsOf(k) :
                      /\ segments[j].start = Offset(subtitles[k].start)
                      /\ segments[j].duration =
                            Offset(subtitles[k].end) - Offset(subtitles[k].start)

(***************************************************************************)
(* C2.  The batch pipeline ends without a segment list only if the         *)
(* cancellation flag was set: a failed translation or synthesis of one     *)
(* line never aborts the batch.  Refuted by a failed translation.          *)
(***************************************************************************)
C2_OnlyCancellationAborts == PipelineRaised => cancel_requested

(***************************************************************************)
(* C3.  Once the cancellation flag is set, no step issues a translation    *)
(* call or a synthesis call.  Refuted: a task that waited for a slot when  *)
(* the flag was set translates once it gets the slot.                      *)
(***************************************************************************)
C3_NoCallAfterCancel ==
    [][cancel_requested =>
          (translate_calls' = translate_calls /\ tts_calls' = tts_calls)]_vars

(***************************************************************************)
(* C4.  If the flag is set when the line-tasks are launched (and it stays  *)
(* set: nothing clears it during a run), no translation call and no        *)
(* synthesis call is made, no downstream stage starts, and the run can     *)
(* only end as Cancelled.                                                  *)
(***************************************************************************)
C4_CancelledAtLaunch ==
    flag_at_launch =>
        /\ cancel_requested
        /\ \A k \in Tasks : translate_calls[k] = 0 /\ tts_calls[k] = 0
        /\ rp \notin Downstream
        /\ outcome \in {"running", "Cancelled"}

C4_Witness ==
    /\ flag_at_launch
    /\ outcome = "Cancelled"
    /\ N > batch_size
    /\ \E k \in Tasks : IsText(k)

(***************************************************************************)
(* C5.  If the flag is set before the batch pipeline hands control back    *)
(* to run_process, the run ends as Cancelled: no downstream stage starts   *)
(* and no final video is written.  Refuted on the outcome: with a failed   *)
(* translation the run ends as a failure, not as Cancelled.                *)
(***************************************************************************)
C5_CancelledBeforeReturn ==
    flag_at_return =>
        /\ rp \notin Downstream
        /\ ~output_video
        /\ outcome \in {"running", "Cancelled"}

(***************************************************************************)
(* C6.  At most batch_size line-tasks hold a concurrency slot, and a task  *)
(* waits only while every slot is held or handed to a woken waiter.        *)
(***************************************************************************)
C6_BoundedConcurrency ==
    /\ Cardinality(Holders) <= batch_size
    /\ Waiters # {} => Cardinality(Holders) + Cardinality(Woken) >= batch_size

C6_Witness ==
    /\ Cardinality(Holders) = batch_size
    /\ batch_size > 1
    /\ Waiters # {}

(***************************************************************************)
(* C7.  The track written by the assembler has length exactly T.           *)
(***************************************************************************)
C7_TrackLengthIsT ==
    output_audio # None => ClipLen(output_audio.track) = total_duration_ms

\* a track cut to T: the walk went past the end of the video, after a gap
C7_Witness ==
    /\ output_audio # None
    /\ total_duration_ms > 0
    /\ current_time > total_duration_ms
    /\ Len(segments) > 1
    /\ \E j \in 1..Len(final_audio) : final_audio[j].kind = "gap"

(***************************************************************************)
(* C8.  For a target duration D > 0 the clip appended for a segment has    *)
(* length exactly D, whatever the loaded length and whatever length the    *)
(* time-stretch step returned.                                             *)
(***************************************************************************)
C8_AppendedClipIsD ==
    (rp = "combine" /\ idx > 0 /\ appended # None
        /\ segments[idx].duration > 0) =>
        ClipLen(appended.clip) = segments[idx].duration

\* the stretch came out one millisecond short and was padded
C8_Witness ==
    /\ rp = "combine"
    /\ idx > 0
    /\ appended # None
    /\ Len(appended.clip) = 2
    /\ appended.clip[1].len = segments[idx].duration - 1
    /\ appended.clip[2].kind = "pad"

(***************************************************************************)
(* C9.  In a batch run that is not cancelled, a line whose cleaned text    *)
(* is empty gets no translation call, no synthesis call and no Segment,    *)
(* and its progress (i + 1, total) is reported exactly once.  Refuted: a   *)
(* failed translation ends the batch while an empty line still waits for   *)
(* a slot, and its progress is never reported.                             *)
(***************************************************************************)
C9_EmptyLineSkipped ==
    (PipelineEnded /\ ~cancel_requested) =>
        \A k \in Tasks :
            ~IsText(k) =>
                /\ translate_calls[k] = 0
                /\ tts_calls[k] = 0
                /\ SegmentsOf(k) = {}
                /\ reported[k] = 1

(***************************************************************************)
(* C10.  After a failed synthesis the file of the line is pure silence of  *)
(* exactly the requested duration, or of 1000 ms when the duration is not  *)
(* positive or not given; every Segment the pipeline returns references a  *)
(* file written in this run.                                               *)
(***************************************************************************)
C10_SilentFallback ==
    /\ \A k \in Tasks :
          (files[k] # None /\ files[k].kind = "silence") =>
              files[k].len =
                  IF Offset(subtitles[k].end) > Offset(subtitles[k].start)
                  THEN Offset(subtitles[k].end) - Offset(subtitles[k].start)
                  ELSE 1000
    /\ SilentFallback(<<>>) = 1000
    /\ PipelineReturned =>
          \A j \in 1..Len(segments) :
              segments[j].file \in written /\ files[segments[j].file] # None

\* two silent fallbacks returned: one of a zero-length line, one of 59.5 s
C10_Witness ==
    /\ rp = "after_batch"
    /\ \E j, i \in 1..Len(segments) :
          /\ segments[j].duration = 0
          /\ files[segments[j].file].kind = "silence"
          /\ segments[i].duration > 1000
          /\ files[segments[i].file].kind = "silence"

(***************************************************************************)
(* Vocabulary of the track: where a chunk lies, and what lies in a window. *)
(***************************************************************************)
ChunkStart(clip, j) == ClipLen(SubSeq(clip, 1, j - 1))
ChunkEnd(clip, j) == ChunkStart(clip, j) + clip[j].len

\* the chunks that came from the clip of segment file k
ChunksOf(clip, k) == { j \in 1..Len(clip) : clip[j].seg = k }

\* some audio (not silence) of the clip lies inside [a, b)
AudioIn(clip, a, b) ==
    \E j \in 1..Len(clip) :
        /\ clip[j].kind = "audio"
        /\ ChunkStart(clip, j) < b
        /\ ChunkEnd(clip, j) > a

\* the place of segment file k in the walk
Position(k) == CHOOSE p \in 1..Len(segments) : segments[p].file = k

WindowEnd(seg) == seg.start + seg.duration

\* the walk clock had not passed the window of the skipped segment when it
\* was reached, and no later segment starts inside it
WindowLeftAlone(sk) ==
    LET p == Position(sk.file) IN
    /\ sk.clock = segments[p].start
    /\ \A q \in (p + 1)..Len(segments) :
            segments[q].start >= WindowEnd(segments[p])

(***************************************************************************)
(* C11.  A segment whose file cannot be read is skipped and the walk goes  *)
(* on: every later segment that no earlier clip overlaps still begins at   *)
(* its own start, the skipped segment's window is silence in the output,   *)
(* and the output is T long.  As stated the middle part fails: the window  *)
(* of a skipped segment holds the audio of a segment that overlaps it.     *)
(***************************************************************************)
C11_SkippedWindowSilent ==
    \A sk \in skipped :
        output_audio # None =>
            ~AudioIn(output_audio.track, segments[Position(sk.file)].start,
                     WindowEnd(segments[Position(sk.file)]))

\* C11, amended: the skipped segment puts nothing on the track; its window
\* is silence when the walk had not passed it and no later segment starts
\* inside it; every later segment that no earlier clip overlaps begins at
\* its own start; and the output is T long.
C11_SkippedSegment ==
    /\ \A sk \in skipped :
          /\ ChunksOf(final_audio, sk.file) = {}
          /\ WindowLeftAlone(sk) =>
                ~AudioIn(final_audio, segments[Position(sk.file)].start,
                         WindowEnd(segments[Position(sk.file)]))
    /\ \A j \in 1..Len(final_audio) :
          (/\ final_audio[j].kind = "audio"
           /\ \E sk \in skipped :
                 Position(sk.file) < Position(final_audio[j].seg)
           /\ \A i \in 1..(j - 1) :
                 final_audio[i].seg # 0 =>
                    ChunkEnd(final_audio, i)
                       <= segments[Position(final_audio[j].seg)].start)
          => ChunkStart(final_audio, j)
                = segments[Position(final_audio[j].seg)].start
    /\ (skipped # {} /\ output_audio # None) =>
          ClipLen(output_audio.track) = total_duration_ms

C11_Witness ==
    /\ output_audio # None
    /\ \E sk \in skipped :
          /\ WindowLeftAlone(sk)
          /\ segments[Position(sk.file)].duration > 0
          /\ WindowEnd(segments[Position(sk.file)]) <= total_duration_ms
          /\ \E j \in 1..Len(final_audio) :
                /\ final_audio[j].kind = "audio"
                /\ Position(sk.file) < Position(final_audio[j].seg)
                /\ ChunkStart(final_audio, j)
                      = segments[Position(final_audio[j].seg)].start

(***************************************************************************)
(* C12.  A time-stretch that fails for a segment longer than its window is *)
(* recovered for that segment: the unmodified clip is cut or padded to D,  *)
(* the failure is logged and the walk goes on; it never aborts the run.    *)
(* Refuted: the exit status of ffmpeg is not looked at (line 181) and the  *)
(* adjusted file is read outside any try (line 224), so the exception      *)
(* leaves the assembler and ends the worker thread.                        *)
(***************************************************************************)
C12_StretchFailureRecovered ==
    ~(outcome = "Crashed" /\ error = "StretchError")

(***************************************************************************)
(* C13.  After every run, however it ended (success, cancellation, missing *)
(* input, subtitle-processing error, video-probe error, assembly error or  *)
(* remux error), start is enabled and cancel is disabled again.  Only the  *)
(* worker thread puts the buttons back, so the claim is that they are back *)
(* when the thread has ended.  Refuted: the probe, the assembler and the   *)
(* remuxer run outside any try (lines 515-528), and an exception there     *)
(* ends the thread with start disabled and cancel enabled for good.        *)
(***************************************************************************)
C13_ControlsReset ==
    (rp = "idle" /\ finishing = 0 /\ outcome \notin {"none", "running"})
        => (btn_start = "normal" /\ btn_cancel = "disabled")

(***************************************************************************)
(* C14.  The remux is two ordered steps, (a) strip the audio of the video  *)
(* into a silent video and (b) mux the silent video with the new track:    *)
(* (b) runs only after (a) succeeded; if either fails, the error leaves    *)
(* the remuxer and ends the run, and the run reports the final video only  *)
(* when both steps succeeded.                                              *)
(***************************************************************************)
C14_RemuxOrdered ==
    /\ rp = "remux_mux" => silent_video
    /\ output_video => silent_video
    /\ error = "RemuxError" =>
          /\ rp = "idle"
          /\ outcome = "Crashed"
          /\ ~output_video
    /\ outcome = "Success" =>
          /\ silent_video
          /\ output_video
          /\ error = "none"

\* step (a) failed on a finished track: step (b) never ran
C14_Witness ==
    /\ error = "RemuxError"
    /\ output_audio # None
    /\ ~silent_video
    /\ ~output_video

\* the segments are in non-decreasing start order, equal starts in the
\* order of their subtitle index
WalkOrder ==
    \A i, j \in 1..Len(segments) :
        i < j =>
            \/ segments[i].start < segments[j].start
            \/ /\ segments[i].start = segments[j].start
               /\ segments[i].file < segments[j].file

GapChunks(clip) == { j \in 1..Len(clip) : clip[j].kind = "gap" }

(***************************************************************************)
(* C15.  The assembler walks the segments in non-decreasing start order,   *)
(* segments with equal start in the order of their subtitle index,         *)
(* whatever order the line-tasks completed in; every silence gap it        *)
(* inserts has a strictly positive length: an iteration inserts a gap      *)
(* exactly when the segment starts after the clock, of that distance.      *)
(***************************************************************************)
C15_WalkOrder ==
    [][ /\ rp' = "combine" => WalkOrder'
        /\ (rp = "combine" /\ idx' = idx + 1) =>
              LET seg == segments[idx']
                  new == GapChunks(final_audio') \ GapChunks(final_audio)
              IN  /\ Cardinality(new) <= 1
                  /\ \A j \in new :
                        /\ final_audio'[j].len > 0
                        /\ final_audio'[j].len = seg.start - current_time
                  /\ new = {} => seg.start <= current_time ]_vars

\* a walk that ended on segments the sort had to reorder, two of them
\* with the same start, and with a gap on the track
C15_Witness ==
    /\ rp = "combine"
    /\ idx = Len(segments)
    /\ \E i \in 1..(Len(segments) - 1) :
          segments[i].file > segments[i + 1].file
    /\ \E i \in 1..(Len(segments) - 1) :
          segments[i].start = segments[i + 1].start
    /\ GapChunks(final_audio) # {}

\* every chunk of the clip lies in [a, b) and comes from segment file k
\* (k = 0: inserted silence)
Within(clip, j, k, a, b) ==
    /\ clip[j].seg = k
    /\ a <= ChunkStart(clip, j)
    /\ ChunkEnd(clip, j) <= b

(***************************************************************************)
(* C16.  For the lines (0 ms, 1000 ms, "A"), (1000 ms, no text) and        *)
(* (2000 ms, 1500 ms, "B") and a 5000 ms video, whatever the synthesis     *)
(* does and whatever the clip lengths: the pipeline returns exactly the    *)
(* Segments (0, 1000) and (2000, 1500), and the track written from their   *)
(* clips is 5000 ms long, with the audio of the first in [0, 1000), of the *)
(* second in [2000, 3500) and inserted silence in [1000, 2000) and         *)
(* [3500, 5000).                                                           *)
(***************************************************************************)
C16_Scenario ==
    /\ PipelineReturned =>
          segments = << [start |-> 0, duration |-> 1000, file |-> 1],
                        [start |-> 2000, duration |-> 1500, file |-> 3] >>
    /\ (output_audio # None /\ total_duration_ms = 5000 /\ skipped = {}) =>
          LET track == output_audio.track IN
          /\ ClipLen(track) = 5000
          /\ \A j \in 1..Len(track) :
                \/ Within(track, j, 1, 0, 1000)
                \/ Within(track, j, 0, 1000, 2000)
                \/ Within(track, j, 3, 2000, 3500)
                \/ Within(track, j, 0, 3500, 5000)

\* the track of the scenario, written after the synthesis of "A" failed and
\* the speech of "B" came out shorter than its window
C16_Witness ==
    /\ subtitles = E2ELines
    /\ output_audio # None
    /\ total_duration_ms = 5000
    /\ skipped = {}
    /\ files[1].kind = "silence"
    /\ files[3].kind = "speech"
    /\ \E j \in 1..Len(output_audio.track) :
          /\ output_audio.track[j].kind = "pad"
          /\ output_audio.track[j].seg = 3

(***************************************************************************)
(* C17.  A clip that is loaded with exactly the length D of its window is  *)
(* appended as it is: no stretch is asked for, nothing is padded and       *)
(* nothing is cut.  And the adjustment is idempotent: adjusting an         *)
(* appended clip to D once more, whatever a stretch would return, gives    *)
(* the same clip.                                                          *)
(***************************************************************************)
C17_ExactLengthUntouched ==
    (rp = "combine" /\ idx > 0 /\ appended # None) =>
        LET seg == segments[idx] IN
        /\ appended.loaded = seg.duration =>
              /\ appended.filters = None
              /\ appended.clip = Audio(seg.file, appended.loaded)
        /\ \A S \in StretchLens(seg.duration) :
              Reconcile(appended.clip, seg.duration, Audio(seg.file, S),
                        seg.file) = appended.clip

\* speech of exactly the window's length was appended
C17_Witness ==
    /\ rp = "combine"
    /\ idx > 0
    /\ appended # None
    /\ appended.loaded = segments[idx].duration
    /\ files[segments[idx].file].kind = "speech"

RECURSIVE Pow2(_)
Pow2(k) == IF k = 0 THEN 1 ELSE 2 * Pow2(k - 1)

\* chain c = k filters of 2.0 and a last filter r = c.num / c.den, for the
\* factor f = A / D: f > 1, k >= 0, 1 < r <= 2, 2^k * r = f, and the single
\* filter f when f <= 2
ChainFor(A, D, c) ==
    /\ A > D
    /\ c.twos >= 0
    /\ c.num > c.den
    /\ c.num <= 2 * c.den
    /\ Pow2(c.twos) * c.num * D = A * c.den
    /\ A <= 2 * D => (c.twos = 0 /\ c.num * D = A * c.den)

\* clip lengths around the powers of two of a window of length D
LongerLens(D) ==
    { D + 1, 2 * D - 1, 2 * D, 2 * D + 1, 3 * D, 4 * D, 4 * D + 1,
      8 * D, 8 * D + 1 }

(***************************************************************************)
(* C18.  For every stretch factor f = A / D > 1 the loop that builds the   *)
(* atempo chain ends, with k >= 0 filters of 2.0 followed by one filter r: *)
(* every filter is at most 2.0, r > 1, and 2^k * r = f; for f <= 2 the     *)
(* chain is the single filter f.  Checked on the chain of every stretch    *)
(* the walk asks for, and on lengths around 2D, 4D and 8D.                 *)
(***************************************************************************)
C18_AtempoChain ==
    (rp = "combine" /\ idx > 0 /\ appended # None) =>
        LET D == segments[idx].duration IN
        /\ appended.filters # None =>
              ChainFor(appended.loaded, D, appended.filters)
        /\ \A A \in LongerLens(D) : ChainFor(A, D, AtempoFilters(A, D))

\* a clip of more than four times its window went through a stretch
C18_Witness ==
    /\ rp = "combine"
    /\ idx > 0
    /\ appended # None
    /\ appended.filters # None
    /\ appended.filters.twos = 2
    /\ appended.loaded > 4 * segments[idx].duration

WalkEnded == rp = "combine" /\ idx = Len(segments)

\* no window overlaps the next one and none ends after the video
WindowsFit ==
    /\ \A j \in 1..Len(segments) : WindowEnd(segments[j]) <= total_duration_ms
    /\ \A j \in 1..(Len(segments) - 1) :
          WindowEnd(segments[j]) <= segments[j + 1].start

(***************************************************************************)
(* C19.  At the end of the walk, before the final clamp and pad, the track *)
(* is at most T long, for every segment collection, windows that overlap   *)
(* or end after T included.  As stated it fails: a window that ends after  *)
(* T, or clips pushed back by an overlap, take the track past T, which is  *)
(* what the truncation of line 236 is there for.                           *)
(***************************************************************************)
C19_WalkLengthAtMostT ==
    WalkEnded => ClipLen(final_audio) <= total_duration_ms

\* C19, amended: at the end of the walk, before the final clamp and pad, the
\* track is at most T long when no window overlaps the next one and none
\* ends after T.
C19_WalkLengthWhenWindowsFit ==
    (WalkEnded /\ WindowsFit) => ClipLen(final_audio) <= total_duration_ms

\* two clips placed in windows that fit, with a gap between them
C19_Witness ==
    /\ WalkEnded
    /\ WindowsFit
    /\ Len(segments) >= 2
    /\ skipped = {}
    /\ GapChunks(final_audio) # {}
    /\ ClipLen(final_audio) = WindowEnd(segments[Len(segments)])

TaskEnded(k) == tpc[k] \in {"done", "cancelled", "failed", "killed"}

(***************************************************************************)
(* C20.  For any number of lines and any batch size of at least one, more  *)
(* lines than slots included: if every translation and synthesis call      *)
(* that was issued returns or raises and the loop runs what is ready, the  *)
(* batch ends, handing its caller the list or the exception, with every    *)
(* line-task ended (on a Segment, on none, or aborted); no line-task       *)
(* waits for a slot for ever.                                              *)
(***************************************************************************)
C20_BatchTerminates ==
    (rp = "batch") ~> (rp # "batch" /\ \A k \in Tasks : TaskEnded(k))

\* a batch of text lines only, more of them than slots, returned its list
C20_Witness ==
    /\ rp = "after_batch"
    /\ gather = "results"
    /\ N > batch_size
    /\ \A k \in Tasks : IsText(k) /\ TaskEnded(k)

\* where the clips placed before chunk j end (0 when there is none)
PlacedEnd(clip, j) ==
    LET ends == { ChunkEnd(clip, i) :
                    i \in { x \in 1..(j - 1) : clip[x].seg # 0 } }
    IN  IF ends = {} THEN 0
        ELSE CHOOSE e \in ends : \A f \in ends : f <= e

(***************************************************************************)
(* C21.  After every iteration of the walk the track is as long as         *)
(* current_time says, whichever branch ran (gap or none, unreadable file,  *)
(* stretch, pad, clip unchanged).  So a clip that was loaded begins        *)
(* exactly at its segment's start when every clip placed before it ends    *)
(* by then, and later than its start, where the clips before it end,       *)
(* when one of them overlaps it.                                           *)
(***************************************************************************)
C21_TrackLengthIsClock ==
    rp = "combine" =>
        /\ ClipLen(final_audio) = current_time
        /\ \A j \in 1..Len(final_audio) :
              final_audio[j].kind = "audio" =>
                 LET start == segments[Position(final_audio[j].seg)].start
                     before == PlacedEnd(final_audio, j)
                 IN  IF start >= before
                     THEN ChunkStart(final_audio, j) = start
                     ELSE /\ ChunkStart(final_audio, j) > start
                          /\ ChunkStart(final_audio, j) = before

\* the walk ended with a clip pushed back by the clip before it
C21_Witness ==
    /\ rp = "combine"
    /\ idx = Len(segments)
    /\ current_time > 0
    /\ \E j \in 1..Len(final_audio) :
          /\ final_audio[j].kind = "audio"
          /\ ChunkStart(final_audio, j)
                > segments[Position(final_audio[j].seg)].start
    /\ \E j \in 1..Len(final_audio) : final_audio[j].kind = "pad"

(***************************************************************************)
(* C22.  A line-task gives its slot back on every way out of "async with   *)
(* sem" (Segment returned, line without text, cancellation seen after the  *)
(* translation, exception of the translation, task cancelled while it      *)
(* awaits): from the creation of the semaphore on, the slots held plus the *)
(* slots free are batch_size, and when every line-task has ended all       *)
(* batch_size slots are free.                                              *)
(***************************************************************************)
C22_SlotConservation ==
    gather # "none" =>
        /\ Cardinality(Holders) + sem_value = batch_size
        /\ (\A k \in Tasks : TaskEnded(k)) => sem_value = batch_size

\* a translation raised with more lines than slots: one task failed, the
\* others were cancelled by the loop while waiting or while in a call
C22_Witness ==
    /\ rp = "idle"
    /\ gather = "Exception"
    /\ N > batch_size
    /\ \E k \in Tasks : tpc[k] = "failed"
    /\ \E k \in Tasks : tpc[k] = "killed"
    /\ \E k \in Tasks : tpc[k] = "done"
    /\ \A k \in Tasks : TaskEnded(k)
    /\ sem_value = batch_size

\* run_process activations that have not returned
ActiveRuns == finishing + (IF rp = "idle" THEN 0 ELSE 1)

(***************************************************************************)
(* C23.  At most one run of the worker is active at any time, because a    *)
(* start disables the start button until that run enables it again; every  *)
(* run begins with the cancellation flag cleared; and within a run the     *)
(* flag, once set, is never cleared.  Refuted: a run enables start one     *)
(* call before it disables cancel and returns, so the next run can begin   *)
(* while the last one is still active, and that one then disables the      *)
(* cancel button of the run that has just begun.                           *)
(***************************************************************************)
C23_RunExclusivity ==
    [][ /\ ActiveRuns' <= 1
        /\ (rp = "idle" /\ rp' = "glob_video") => ~cancel_requested'
        /\ (cancel_requested /\ ~cancel_requested') => ActiveRuns = 0 ]_vars

=============================================================================
